---- MODULE Spec2Model ----
(***************************************************************************)
(* maho: ADS-B assisted aircraft spotting.                                 *)
(*                                                                         *)
(* The model covers the tracker process of maho/cli.py                     *)
(* (track_closest_aircraft driving Dump1090.updates / Dump1090.decode and  *)
(* feeding the aim-point queue), the Aircraft entity of maho/adsb.py with  *)
(* its stamping property setters, the aircraft cache of Dump1090, the      *)
(* hand-off of aim points from the tracker through the main loop of        *)
(* go_maho to camera_control with the startup of the camera process,       *)
(* IPCamera.move_to of maho/camera.py and AzimuthAltitudeDistance of       *)
(* maho/util.py.                                                           *)
(*                                                                         *)
(* Time is an integer number of seconds (datetime.utcnow / time.time).     *)
(* Python's None is the empty tuple; an optional value v is <<v>>, a       *)
(* position is <<lat, lng>> and a fragment slot is <<payload, timestamp>>. *)
(* Aircraft are objects on a heap so that the aliasing between the         *)
(* tracker's `target` and the cache entry is kept.                         *)
(***************************************************************************)
EXTENDS Integers, Sequences, FiniteSets, TLC

VARIABLES now, heap, cache, target, target_distance, targets, ev, old_frag,
          max_len, touch, camera_queue, camera, main_pc, aad

\* The capacity the cache was constructed with and the order in which its
\* keys were last touched (a history of the cache runs).
cache_vars == <<max_len, touch>>

\* The queue of move commands, the camera process and the main loop.
handoff_vars == <<camera_queue, camera, main_pc>>

\* The AzimuthAltitudeDistance object of the observer.
geo_vars == <<aad>>

vars == <<now, heap, cache, target, target_distance, targets, ev, old_frag,
          cache_vars, handoff_vars, geo_vars>>

(***************************************************************************)
(* Bounds of the model.                                                    *)
(***************************************************************************)
MaxTime == 61
MaxQueue == 1
MaxPending == 2

Icaos == {"A777BF", "A00001"}
\* Time advances in steps that reach an age of exactly 60 s and of 61 s.
TickSteps == {30, 31}
\* Encoded half positions: those the tracker runs receive, and those the
\* decoder runs receive (1 and 3 share a latitude zone).
Cprs == {1, 2}
DecodeCprs == {1, 2, 3}
Altitudes == {10000}

None == <<>>
Some(v) == <<v>>
NULL == 0

(***************************************************************************)
(* Program constants.                                                      *)
(***************************************************************************)
max_aircraft == 1000
max_aircraft_age == 60
StaleAge == 60

(***************************************************************************)
(* maho.adsb.Aircraft: the entity and its property setters.                *)
(***************************************************************************)
Blank ==
    [icao |-> "", callsign |-> None, altitude |-> None, position |-> None,
     speed |-> None, heading |-> None,
     position_even |-> None, position_odd |-> None, last_update |-> 0]

set_icao(a, value, t) == [a EXCEPT !.icao = value, !.last_update = t]

set_callsign(a, value, t) == [a EXCEPT !.callsign = value, !.last_update = t]

set_altitude(a, value, t) == [a EXCEPT !.altitude = value, !.last_update = t]

set_speed(a, value, t) == [a EXCEPT !.speed = value, !.last_update = t]

set_heading(a, value, t) == [a EXCEPT !.heading = value, !.last_update = t]

\* Variant: the position setter clears the even slot only.
set_position_keeps_odd(a, value) ==
    [a EXCEPT !.position = value, !.position_even = None]

\* The position setter clears both fragment slots and does not stamp.
set_position(a, value) ==
    [a EXCEPT !.position = value, !.position_even = None, !.position_odd = None]

set_position_even(a, value, t) == [a EXCEPT !.position_even = <<value, t>>]

\* Variant: an odd fragment is stored in both slots.
set_position_odd_fills_both(a, value, t) ==
    [a EXCEPT !.position_odd = <<value, t>>, !.position_even = <<value, t>>]

set_position_odd(a, value, t) == [a EXCEPT !.position_odd = <<value, t>>]

\* Variant: the age setter moves last_update and raises nothing.
set_age_assigns(a, value) ==
    [obj |-> [a EXCEPT !.last_update = a.last_update - value], raised |-> ""]

\* The age setter raises ValueError and assigns nothing.
set_age(a, value) == [obj |-> a, raised |-> "ValueError"]

age(a, t) == t - a.last_update

\* Aircraft.altitude getter: feet to meters (value * 0.3048).
get_altitude(a) == (a.altitude[1] * 3048) \div 10000

\* Reading aircraft.altitude: the product raises TypeError when no altitude
\* has been stored.
read_altitude(a) ==
    IF a.altitude = None
    THEN [value |-> None, raised |-> "TypeError"]
    ELSE [value |-> Some(get_altitude(a)), raised |-> ""]

\* Aircraft.__init__
Aircraft(icao, t) ==
    set_heading(
      set_speed(
        set_position(
          set_altitude(
            set_callsign(set_icao(Blank, icao, t), None, t),
            None, t),
          None),
        None, t),
      None, t)

(***************************************************************************)
(* The aircraft cache: ExpiringDict(max_len, max_age_seconds), an ordered  *)
(* dictionary of (value, set_time) kept in insertion order.                *)
(***************************************************************************)
cache_has(c, k) == \E i \in 1..Len(c) : c[i].key = k

cache_entry(c, k) == c[CHOOSE i \in 1..Len(c) : c[i].key = k]

cache_del(c, k) == SelectSeq(c, LAMBDA e : e.key # k)

\* Variant: the lookup returns an entry whatever its age.
cache_get_any_age(c, k, t) ==
    IF ~cache_has(c, k)
    THEN [cache |-> c, value |-> NULL]
    ELSE [cache |-> c, value |-> cache_entry(c, k).value]

\* ExpiringDict.__getitem__ under get(key, default): an entry whose age has
\* reached max_age_seconds is deleted and the lookup misses.
cache_get(c, k, t) ==
    IF ~cache_has(c, k)
    THEN [cache |-> c, value |-> NULL]
    ELSE IF t - cache_entry(c, k).set_time < max_aircraft_age
         THEN [cache |-> c, value |-> cache_entry(c, k).value]
         ELSE [cache |-> cache_del(c, k), value |-> NULL]

\* ExpiringDict.__contains__: deletes an expired entry as a side effect.
cache_contains(c, k, t) ==
    IF ~cache_has(c, k)
    THEN [cache |-> c, found |-> FALSE]
    ELSE IF t - cache_entry(c, k).set_time < max_aircraft_age
         THEN [cache |-> c, found |-> TRUE]
         ELSE [cache |-> cache_del(c, k), found |-> FALSE]

\* Variant: nothing makes room at capacity.
cache_set_keeps_all(c, k, v, t) ==
    LET e == [key |-> k, value |-> v, set_time |-> t]
    IN  IF cache_has(c, k)
        THEN [i \in 1..Len(c) |-> IF c[i].key = k THEN e ELSE c[i]]
        ELSE Append(c, e)

\* ExpiringDict.__setitem__: at capacity the key itself or else the oldest
\* entry makes room; an existing key keeps its place in the order.
cache_set(c, k, v, t) ==
    LET room ==
            IF Len(c) = max_len
            THEN LET cc == cache_contains(c, k, t)
                 IN  IF cc.found THEN cache_del(cc.cache, k)
                     ELSE IF cc.cache = <<>> THEN cc.cache ELSE Tail(cc.cache)
            ELSE c
        e == [key |-> k, value |-> v, set_time |-> t]
    IN  IF cache_has(room, k)
        THEN [i \in 1..Len(room) |-> IF room[i].key = k THEN e ELSE room[i]]
        ELSE Append(room, e)

(***************************************************************************)
(* ADS-B messages as the pyModeS decoder sees them.  A message carries the *)
(* fields the decoder extracts; cpr is the encoded half position of an     *)
(* airborne position message.  Every identification message carries the    *)
(* callsign RawCallsign and every velocity message RawKnots and RawHeading.*)
(***************************************************************************)
RawCallsign == <<"A", "A", "L", "_", "_">>
RawKnots == 263
RawHeading == 56

Msg(icao, df, tc, oe, cpr, alt) ==
    [icao |-> icao, df |-> df, tc |-> tc, oe |-> oe, cpr |-> cpr,
     altitude |-> alt]

IdentMsgs == {Msg(i, 17, 4, 0, 0, None) : i \in Icaos}
VelocityMsgs == {Msg(i, 17, 19, 0, 0, None) : i \in Icaos}
SurfaceMsgs == {Msg(i, 17, 6, 0, 0, None) : i \in Icaos}
ShortMsgs == {Msg(i, 11, 0, 0, 0, None) : i \in Icaos}
PositionMsgs ==
    {Msg(i, 17, 11, oe, c, Some(alt)) :
        i \in Icaos, oe \in {0, 1}, c \in DecodeCprs, alt \in Altitudes}
\* Airborne position reports from which the decoder reads no altitude.
NoAltitudeMsgs == {Msg(i, 17, 11, oe, 1, None) : i \in Icaos, oe \in {0, 1}}

Msgs == IdentMsgs \cup VelocityMsgs \cup SurfaceMsgs \cup ShortMsgs
            \cup PositionMsgs \cup NoAltitudeMsgs

\* The packets of the tracker runs and of the decoder runs.
TrackMsgs == {m \in PositionMsgs : m.cpr \in Cprs}
DecodeMsgs == {m \in Msgs : m.icao = "A777BF"}

modes_icao(msg) == msg.icao
modes_df(msg) == msg.df
modes_typecode(msg) == msg.tc
modes_callsign(msg) == RawCallsign
modes_speed_heading(msg) == <<RawKnots, RawHeading>>
modes_altitude(msg) == msg.altitude
modes_oe_flag(msg) == msg.oe

\* str.rstrip('_')
RECURSIVE rstrip(_)
rstrip(s) ==
    IF s # <<>> /\ s[Len(s)] = "_" THEN rstrip(SubSeq(s, 1, Len(s) - 1)) ELSE s

\* The latitude zone a half position lies in, and the coordinate (metres
\* north and east of the observer) it resolves to.
CprZone(c) == c % 2
CprPosition(c) == IF c % 2 = 1 THEN <<4064 * (c - 1), 0>> ELSE <<0, 4064 * (c - 1)>>

\* modes.adsb.position(msg0, msg1, t0, t1): no result when the two halves
\* lie in different latitude zones, else the coordinate of the newer half.
modes_position(msg0, msg1, t0, t1) ==
    IF CprZone(msg0.cpr) # CprZone(msg1.cpr) THEN None
    ELSE IF t0 >= t1 THEN CprPosition(msg0.cpr) ELSE CprPosition(msg1.cpr)

(***************************************************************************)
(* maho.util.AzimuthAltitudeDistance in a local frame centred on the       *)
(* observer's latitude and longitude: lat and lng are metres north and     *)
(* east, ele metres above the ellipsoid.  Angles are whole degrees         *)
(* resolved to the compass octant.                                         *)
(***************************************************************************)
\* The observer of the tracker runs.
origin == [lat |-> 0, lng |-> 0, ele |-> 0]

\* AzimuthAltitudeDistance.__init__; args is the last call of calculate and
\* result what it returned.
AzimuthAltitudeDistance(lat, lng, ele) ==
    [origin |-> [lat |-> lat, lng |-> lng, ele |-> ele],
     args |-> None, result |-> None]

RECURSIVE isqrt_between(_, _, _)
isqrt_between(n, lo, hi) ==
    IF lo >= hi THEN lo
    ELSE LET mid == (lo + hi + 1) \div 2
         IN  IF mid * mid <= n THEN isqrt_between(n, mid, hi)
             ELSE isqrt_between(n, lo, mid - 1)

sqrt(n) == isqrt_between(n, 0, 32768)

_distance(self, lat, lng, ele) ==
    LET dx == self.origin.lng - lng
        dy == self.origin.lat - lat
        dz == self.origin.ele - ele
    IN  sqrt(dx * dx + dy * dy + dz * dz)

Abs(x) == IF x < 0 THEN -x ELSE x

\* Floating point on a reduced grid: a number is an integer count of
\* 1/Scale degree and the representable numbers are spaced as those of a
\* binary format, the spacing doubling from one binade to the next: one
\* degree in [256, 512), half a degree in [128, 256), a quarter below.
Scale == 4

Float(degrees) == degrees * Scale

spacing(x) ==
    IF Abs(x) >= Float(256) THEN Scale
    ELSE IF Abs(x) >= Float(128) THEN Scale \div 2
    ELSE 1

\* The result of an arithmetic operation whose exact value is x: the
\* nearest representable number, ties to the even one.
fl(x) ==
    LET s == spacing(x)
        q == x \div s
        r == x % s
    IN  IF 2 * r < s THEN q * s
        ELSE IF 2 * r > s THEN (q + 1) * s
        ELSE IF q % 2 = 0 THEN q * s ELSE (q + 1) * s

\* azimuth = 90.0 - theta and the two normalisation steps that follow.
normalize(theta) ==
    LET azimuth == fl(Float(90) - theta)
        wrapped == IF azimuth < 0 THEN fl(azimuth + Float(360)) ELSE azimuth
    IN  IF wrapped > Float(360) THEN fl(wrapped - Float(360)) ELSE wrapped

\* math.atan2(bz, by) * 180.0 / math.pi, to the nearest octant.
atan2_degrees(bz, by) ==
    IF 2 * Abs(bz) <= Abs(by) THEN (IF by > 0 THEN 0 ELSE 180)
    ELSE IF 2 * Abs(by) <= Abs(bz) THEN (IF bz > 0 THEN 90 ELSE -90)
    ELSE IF by > 0 THEN (IF bz > 0 THEN 45 ELSE -45)
    ELSE (IF bz > 0 THEN 135 ELSE -135)

\* The azimuth, in whole degrees, of the direction (by, bz).
Octant(by, bz) == normalize(Float(atan2_degrees(bz, by))) \div Scale

\* The z of rotated_dest leans north by the difference between the
\* geodetic and the geocentric latitude of the observer: millimetres per
\* metre of the target's elevation, 1000 * sin(lat - geocentric lat), for
\* the observer of test_aad (latitude 41.42265).
GeodeticSkew == 3

\* Variant: geodetic and geocentric latitude coincide (an observer on the
\* equator).
_azimuth_equator(self, lat, lng, ele) ==
    LET by == 1000 * (lng - self.origin.lng)
        bz == 1000 * (lat - self.origin.lat)
        dx == lng - self.origin.lng
        dy == lat - self.origin.lat
        dz == ele - self.origin.ele
        dist == dx * dx + dy * dy + dz * dz
        azimuth == IF Abs(bz) + Abs(by) > 1 THEN Some(Octant(by, bz)) ELSE None
        altitude ==
            IF dist # 0
            THEN Some(IF dx * dx + dy * dy = 0 THEN (IF dz > 0 THEN 90 ELSE -90)
                      ELSE IF dz = 0 THEN 0
                      ELSE IF dz > 0 THEN 45 ELSE -45)
            ELSE None
    IN  <<azimuth, altitude>>

\* by and bz are millimetres; bz * bz + by * by > 1.0e-6 (square metres)
\* is, for whole millimetres, |bz| + |by| > 1.
_azimuth(self, lat, lng, ele) ==
    LET by == 1000 * (lng - self.origin.lng)
        bz == 1000 * (lat - self.origin.lat) + GeodeticSkew * ele
        dx == lng - self.origin.lng
        dy == lat - self.origin.lat
        dz == ele - self.origin.ele
        dist == dx * dx + dy * dy + dz * dz
        azimuth == IF Abs(bz) + Abs(by) > 1 THEN Some(Octant(by, bz)) ELSE None
        altitude ==
            IF dist # 0
            THEN Some(IF dx * dx + dy * dy = 0 THEN (IF dz > 0 THEN 90 ELSE -90)
                      ELSE IF dz = 0 THEN 0
                      ELSE IF dz > 0 THEN 45 ELSE -45)
            ELSE None
    IN  <<azimuth, altitude>>

calculate(self, lat, lng, ele) ==
    LET azalt == _azimuth(self, lat, lng, ele)
    IN  [azimuth |-> azalt[1], altitude |-> azalt[2],
         distance |-> _distance(self, lat, lng, ele)]

(***************************************************************************)
(* Dump1090.decode: one message against the heap h and the cache c at      *)
(* time t.  rv is the reference of the yielded aircraft or NULL; merge     *)
(* records whether the positional merge ran and what it was given; raised  *)
(* names the exception that ended decode before it stored the aircraft.    *)
(***************************************************************************)
\* A reference no live object uses (live references are 1..n).
FreshRef(h) == Cardinality(DOMAIN h) + 1

NoMerge == [ran |-> FALSE, even |-> None, odd |-> None, result |-> None]

\* Variant: an aircraft with an altitude is returned whatever its position.
eligible_without_position(a) ==
    IF read_altitude(a).raised # ""
    THEN [value |-> FALSE, raised |-> read_altitude(a).raised]
    ELSE [value |-> TRUE, raised |-> ""]

\* aircraft.altitude is not None and aircraft.position is not None
eligible(a) ==
    IF read_altitude(a).raised # ""
    THEN [value |-> FALSE, raised |-> read_altitude(a).raised]
    ELSE [value |-> read_altitude(a).value # None /\ a.position # None,
          raised |-> ""]

decode(msg, h, c, t) ==
    LET icao == modes_icao(msg)
        g == cache_get(c, icao, t)
        ref == IF g.value # NULL THEN g.value ELSE FreshRef(h)
        a0 == IF g.value # NULL THEN h[g.value] ELSE Aircraft(icao, t)
        tc == modes_typecode(msg)
        a1 == IF tc < 5
              THEN set_callsign(a0, Some(rstrip(modes_callsign(msg))), t)
              ELSE a0
        a2 == IF tc = 19
              THEN set_heading(
                     set_speed(a1,
                        Some((modes_speed_heading(msg)[1] * 115078) \div 100000), t),
                     Some(modes_speed_heading(msg)[2]), t)
              ELSE a1
        ispos == tc > 8 /\ tc < 19
        a3 == IF ispos THEN set_altitude(a2, modes_altitude(msg), t) ELSE a2
        a4 == IF ~ispos THEN a3
              ELSE IF modes_oe_flag(msg) = 0 THEN set_position_even(a3, msg, t)
              ELSE set_position_odd(a3, msg, t)
        both == ispos /\ a4.position_odd # None /\ a4.position_even # None
        result == modes_position(a4.position_even[1], a4.position_odd[1],
                                 a4.position_even[2], a4.position_odd[2])
        a5 == IF both THEN set_position(a4, result) ELSE a4
        chk == IF both THEN eligible(a5) ELSE [value |-> FALSE, raised |-> ""]
        merge == IF both
                 THEN [ran |-> TRUE, even |-> a4.position_even,
                       odd |-> a4.position_odd, result |-> result]
                 ELSE NoMerge
    IN  IF modes_df(msg) # 17
        THEN [heap |-> h, cache |-> g.cache, rv |-> NULL, merge |-> NoMerge,
              raised |-> ""]
        ELSE IF chk.raised # ""
        THEN [heap |-> (ref :> a5) @@ h, cache |-> g.cache, rv |-> NULL,
              merge |-> merge, raised |-> chk.raised]
        ELSE [heap |-> (ref :> a5) @@ h,
              cache |-> cache_set(g.cache, icao, ref, t),
              rv |-> IF chk.value THEN ref ELSE NULL,
              merge |-> merge, raised |-> ""]

(***************************************************************************)
(* The body of the loop of track_closest_aircraft for one yielded          *)
(* aircraft.  The aim point put on the queue names the aircraft by icao.   *)
(***************************************************************************)
\* aad.calculate(lat, lng, aircraft.altitude) for a yielded aircraft
aim(aircraft) ==
    calculate(aad, aircraft.position[1], aircraft.position[2],
              get_altitude(aircraft))

\* The tuple put on the queue.
aim_point(aircraft) ==
    LET r == aim(aircraft)
    IN  [icao |-> aircraft.icao, azimuth |-> r.azimuth,
         altitude |-> r.altitude, distance |-> r.distance]

\* Variant: a target never becomes stale.
IsStale_never(h, tgt, t) == FALSE

\* Variant: a target is stale from an age of 60 s on.
IsStale_at60(h, tgt, t) == tgt # NULL /\ age(h[tgt], t) >= StaleAge

IsStale(h, tgt, t) == tgt # NULL /\ age(h[tgt], t) > StaleAge

\* Variant: a candidate at the same distance counts as closer.
IsCloser_tie(h, tgt, aircraft, distance, td) ==
    h[tgt].icao # aircraft.icao /\ distance <= td[1]

\* Variant: the comparison is the wrong way round.
IsCloser_reversed(h, tgt, aircraft, distance, td) ==
    h[tgt].icao # aircraft.icao /\ distance > td[1]

IsCloser(h, tgt, aircraft, distance, td) ==
    h[tgt].icao # aircraft.icao /\ distance < td[1]

\* Variant: a re-confirmation keeps the smaller of the two distances.
track_keeps_min(h, ref, tgt, td, q, t) ==
    LET aircraft == h[ref]
        distance == aim(aircraft).distance
        switch == tgt = NULL \/ IsStale(h, tgt, t)
                    \/ IsCloser(h, tgt, aircraft, distance, td)
        t1 == IF switch THEN ref ELSE tgt
    IN  IF h[t1].icao # aircraft.icao
        THEN [target |-> t1, target_distance |-> td, q |-> q, put |-> FALSE]
        ELSE [target |-> ref,
              target_distance |->
                  IF ~switch /\ td # None /\ td[1] < distance THEN td
                  ELSE Some(distance),
              q |-> Append(q, aim_point(aircraft)), put |-> TRUE]

\* Variant: the aim point is put on the queue before the `continue`.
track_puts_first(h, ref, tgt, td, q, t) ==
    LET aircraft == h[ref]
        distance == aim(aircraft).distance
        switch == tgt = NULL \/ IsStale(h, tgt, t)
                    \/ IsCloser(h, tgt, aircraft, distance, td)
        t1 == IF switch THEN ref ELSE tgt
    IN  IF h[t1].icao # aircraft.icao
        THEN [target |-> t1, target_distance |-> td,
              q |-> Append(q, aim_point(aircraft)), put |-> TRUE]
        ELSE [target |-> ref, target_distance |-> Some(distance),
              q |-> Append(q, aim_point(aircraft)), put |-> TRUE]

\* Variant: a stale target is dropped instead of replaced.
track_drops_stale(h, ref, tgt, td, q, t) ==
    LET aircraft == h[ref]
        distance == aim(aircraft).distance
        switch == tgt = NULL \/ IsCloser(h, tgt, aircraft, distance, td)
        t1 == IF switch THEN ref ELSE tgt
    IN  IF tgt # NULL /\ IsStale(h, tgt, t)
        THEN [target |-> NULL, target_distance |-> None, q |-> q, put |-> FALSE]
        ELSE IF h[t1].icao # aircraft.icao
        THEN [target |-> t1, target_distance |-> td, q |-> q, put |-> FALSE]
        ELSE [target |-> ref, target_distance |-> Some(distance),
              q |-> Append(q, aim_point(aircraft)), put |-> TRUE]

\* Variant: taking a target leaves target_distance as it was.
track_leaves_distance(h, ref, tgt, td, q, t) ==
    LET aircraft == h[ref]
        distance == aim(aircraft).distance
        switch == tgt = NULL \/ IsStale(h, tgt, t)
                    \/ IsCloser(h, tgt, aircraft, distance, td)
        t1 == IF switch THEN ref ELSE tgt
    IN  IF h[t1].icao # aircraft.icao
        THEN [target |-> t1, target_distance |-> td, q |-> q, put |-> FALSE]
        ELSE [target |-> ref,
              target_distance |-> IF switch THEN td ELSE Some(distance),
              q |-> Append(q, aim_point(aircraft)), put |-> TRUE]

track(h, ref, tgt, td, q, t) ==
    LET aircraft == h[ref]
        distance == aim(aircraft).distance
        switch == tgt = NULL \/ IsStale(h, tgt, t)
                    \/ IsCloser(h, tgt, aircraft, distance, td)
        t1 == IF switch THEN ref ELSE tgt
    IN  IF h[t1].icao # aircraft.icao
        THEN [target |-> t1, target_distance |-> td, q |-> q, put |-> FALSE]
        ELSE [target |-> ref, target_distance |-> Some(distance),
              q |-> Append(q, aim_point(aircraft)), put |-> TRUE]

\* Objects no longer referenced by the cache or by the tracker are dropped;
\* the remaining ones are renumbered in cache order, a target that has left
\* the cache last, so that a reference is a position and not an address.
Live(c, tgt) ==
    LET cached == [i \in 1..Len(c) |-> c[i].value]
    IN  IF tgt = NULL \/ \E i \in 1..Len(c) : c[i].value = tgt
        THEN cached ELSE Append(cached, tgt)

Renumber(live, ref) ==
    IF ref = NULL THEN NULL ELSE CHOOSE i \in 1..Len(live) : live[i] = ref

Collect(h, c, tgt) ==
    LET live == Live(c, tgt)
    IN  [heap |-> [i \in 1..Len(live) |-> h[live[i]]],
         cache |-> [i \in 1..Len(c) |-> [c[i] EXCEPT !.value = i]],
         target |-> Renumber(live, tgt)]

(***************************************************************************)
(* History.  ev records what the last step did: the operation, the icao    *)
(* it was about, whether decode yielded an aircraft, whether an aim point  *)
(* was put on the queue, whether the tracker found its target stale, the   *)
(* target's icao and distance before the step, the outcome of the merge    *)
(* and the exception raised, the key a store pushed out of the cache and   *)
(* whether the lookup found an entry that had expired.  old_frag is the history of the runs that     *)
(* drive decode directly: it marks, per icao and parity, a fragment slot   *)
(* whose content was captured before the cached aircraft's latest          *)
(* resolved position was assigned.                                         *)
(***************************************************************************)
Event(op, msg, yielded, put, stale, prev, prev_distance, merge, raised) ==
    [op |-> op, msg |-> msg, icao |-> msg.icao, yielded |-> yielded, put |-> put,
     stale |-> stale, prev |-> prev, prev_distance |-> prev_distance,
     merge |-> merge, raised |-> raised, evicted |-> "", expired |-> FALSE]

NoMsg == Msg("", 0, 0, 0, 0, None)

Quiet(op) == Event(op, NoMsg, FALSE, FALSE, FALSE, "", None, "none", "")

Fresh ==
    [even |-> FALSE, odd |-> FALSE, used |-> FALSE,
     resolved |-> FALSE, after |-> FALSE]

MergeOutcome(d) ==
    IF ~d.merge.ran THEN "none"
    ELSE IF d.merge.result = None THEN "failed" ELSE "ok"

\* old_frag[msg.icao] after msg has been decoded into the aircraft a; hit
\* tells whether the cache held the aircraft.  even and odd mark the slots
\* captured before the latest resolved position, used tells whether the
\* merge of this step consumed a marked slot, resolved whether the aircraft
\* has ever been assigned a resolved position and after whether the merge
\* of this step ran on an aircraft that had.
OldFragAfter(msg, d, a, hit) ==
    LET f0 == IF hit THEN old_frag[msg.icao] ELSE Fresh
        ispos == modes_typecode(msg) > 8 /\ modes_typecode(msg) < 19
        f1 == IF ~ispos THEN f0
              ELSE IF modes_oe_flag(msg) = 0 THEN [f0 EXCEPT !.even = FALSE]
              ELSE [f0 EXCEPT !.odd = FALSE]
    IN  IF MergeOutcome(d) = "none"
        THEN [f1 EXCEPT !.used = FALSE, !.after = FALSE]
        ELSE [even |-> IF MergeOutcome(d) = "ok" THEN a.position_even # None
                       ELSE f1.even /\ a.position_even # None,
              odd |-> IF MergeOutcome(d) = "ok" THEN a.position_odd # None
                      ELSE f1.odd /\ a.position_odd # None,
              used |-> f1.even \/ f1.odd,
              resolved |-> f1.resolved \/ MergeOutcome(d) = "ok",
              after |-> f1.resolved]

\* IPCamera.__init__: the camera process, about to take a command off its
\* queue; args is the command in progress, moved what move_to last returned.
IPCamera(azimuth_offset, altitude_offset) ==
    [pc |-> "get", azimuth_offset |-> azimuth_offset,
     altitude_offset |-> altitude_offset, args |-> None, moved |-> None]

(***************************************************************************)
(* The tracker process.  Init is the state in which Dump1090 is connected  *)
(* and the loop of track_closest_aircraft is about to read its first       *)
(* packet: the cache is empty and there is no target.                      *)
(***************************************************************************)
Init ==
    /\ now = 0
    /\ heap = <<>>
    /\ cache = <<>>
    /\ target = NULL
    /\ target_distance = None
    /\ targets = <<>>
    /\ ev = Quiet("init")
    /\ old_frag = [i \in Icaos |-> Fresh]
    /\ max_len = max_aircraft
    /\ touch = <<>>
    /\ camera_queue = <<>>
    /\ camera = IPCamera(0, 0)
    /\ main_pc = "loop"
    /\ aad = AzimuthAltitudeDistance(origin.lat, origin.lng, origin.ele)

\* Time passes between two packets.
Tick(d) ==
    /\ now + d <= MaxTime
    /\ now' = now + d
    /\ ev' = Quiet("tick")
    /\ UNCHANGED <<heap, cache, target, target_distance, targets, old_frag,
                   cache_vars, handoff_vars, geo_vars>>

CacheHit(msg) == cache_get(cache, modes_icao(msg), now).value # NULL

\* Variant: the queue holds one item and put blocks while it is taken.
put_ready_single(q) == q = <<>>

\* q.put(item) on a multiprocessing.Queue() constructed without a maxsize
\* returns without waiting for the consumer.
put_ready(q) == TRUE

\* What the loop body of track_closest_aircraft computes for what decode
\* returned (d): nothing changes when decode yielded no aircraft.
Tracked(d) ==
    IF d.rv # NULL
    THEN track(d.heap, d.rv, target, target_distance, targets, now)
    ELSE [target |-> target, target_distance |-> target_distance,
          q |-> targets, put |-> FALSE]

\* The record of the iteration on the packet msg, r being Tracked(d).
PacketEvent(msg, d, r) ==
    Event("packet", msg, d.rv # NULL, r.put,
          d.rv # NULL /\ IsStale(d.heap, target, now),
          IF target = NULL THEN "" ELSE heap[target].icao,
          target_distance, MergeOutcome(d), "")

\* The end of the iteration: the tracker's variables and the queue take the
\* values computed (r, the heap and cache gc), which needs q.put to return
\* when an aim point is put.
Commit(r, gc, e) ==
    /\ heap' = gc.heap
    /\ cache' = gc.cache
    /\ target' = gc.target
    /\ target_distance' = r.target_distance
    /\ targets' = r.q
    /\ ev' = e
    /\ r.put => put_ready(targets)
    /\ UNCHANGED <<now, old_frag, cache_vars, handoff_vars, geo_vars>>

\* The loop body of track_closest_aircraft for what decode returned (d) for
\* the packet msg.
Track(msg, d) ==
    \E r \in {Tracked(d)} :
       \E gc \in {Collect(d.heap, d.cache, r.target)} :
          \E e \in {PacketEvent(msg, d, r)} : Commit(r, gc, e)

\* One iteration of Dump1090.updates for a well-framed packet, followed by
\* the loop body of track_closest_aircraft; cap bounds the length of the
\* queue in the model.
Ingest(msg, cap) ==
    /\ Len(targets) < cap
    /\ \E d \in {decode(msg, heap, cache, now)} : Track(msg, d)

Packet(msg) == Ingest(msg, MaxQueue)

\* The main process takes the oldest aim point off the queue
\* (targets.get(False) in go_maho).
targets_get ==
    /\ targets # <<>>
    /\ targets' = Tail(targets)
    /\ ev' = Quiet("get")
    /\ UNCHANGED <<now, heap, cache, target, target_distance, old_frag,
                   cache_vars, handoff_vars, geo_vars>>

Next ==
    \/ \E d \in TickSteps : Tick(d)
    \/ \E msg \in TrackMsgs : Packet(msg)
    \/ targets_get

Spec == Init /\ [][Next]_vars

(***************************************************************************)
(* The tracker with a target that falls silent: the nearer aircraft        *)
(* (A777BF, overhead) and a farther one (A00001, to the east) report, time *)
(* passes up to the horizon of the model, and the reports of either may    *)
(* stop.                                                                   *)
(***************************************************************************)
SilentMsgs == {m \in TrackMsgs : m.icao = "A777BF" /\ m.cpr = 1}
ChallengerMsgs == {m \in TrackMsgs : m.icao = "A00001" /\ m.cpr = 2}

\* Time passes by d seconds, or up to the horizon when that is nearer.
Elapse(d) ==
    /\ now < MaxTime
    /\ now' = IF now + d <= MaxTime THEN now + d ELSE MaxTime
    /\ ev' = Quiet("tick")
    /\ UNCHANGED <<heap, cache, target, target_distance, targets, old_frag,
                   cache_vars, handoff_vars, geo_vars>>

NextStale ==
    \/ \E d \in TickSteps : Elapse(d)
    \/ \E msg \in SilentMsgs \cup ChallengerMsgs : Packet(msg)
    \/ targets_get

\* Time passes.
FairStale == WF_vars(\E d \in TickSteps : Elapse(d))

SpecStale == Init /\ [][NextStale]_vars /\ FairStale

(***************************************************************************)
(* The hand-off: the tracker process puts aim points on targets, the main  *)
(* loop of go_maho moves them to camera_queue and camera_control takes     *)
(* them off and moves the camera.  The three run as separate processes.    *)
(***************************************************************************)
\* The reports of the hand-off runs, as <<half position, altitude in feet>>:
\* one aircraft, on the ground at the observer's position and airborne to
\* the east.
HandoffReports == {<<1, 0>>, <<2, 10000>>}

HandoffMsgs ==
    {Msg("A777BF", 17, 11, oe, p[1], Some(p[2])) :
        oe \in {0, 1}, p \in HandoffReports}

\* IPCamera.move_to: the position the camera is sent to and the pan and
\* tilt of the AbsoluteMove request, as fractions <<numerator, denominator>>.
move_to(cam, azimuth, altitude) ==
    LET az0 == azimuth + cam.azimuth_offset
        alt0 == altitude + cam.altitude_offset
        az == IF az0 > 360 THEN az0 - 360
              ELSE IF az0 < 0 THEN 360 + az0 ELSE az0
        alt == IF alt0 > 90 THEN 90 ELSE IF alt0 < 0 THEN 0 ELSE alt0
    IN  [azimuth |-> az, altitude |-> alt,
         x_target |-> IF az <= 180 THEN <<az, 180>> ELSE <<-(360 - az), 180>>,
         y_target |-> IF alt <= 45 THEN <<45 - alt, 45>> ELSE <<-(alt - 45), 45>>]

\* One pass of the main loop of go_maho that finds an aim point:
\* targets.get(False) takes the oldest one, the status line formats its
\* azimuth and altitude with {:.3f} (a TypeError on None, which ends the
\* loop) and camera_queue.put passes the two on.
main_get ==
    /\ main_pc = "loop"
    /\ targets # <<>>
    /\ targets' = Tail(targets)
    /\ IF Head(targets).azimuth = None \/ Head(targets).altitude = None
       THEN /\ main_pc' = "TypeError"
            /\ ev' = [Quiet("main_get") EXCEPT !.raised = "TypeError"]
            /\ UNCHANGED camera_queue
       ELSE /\ Len(camera_queue) < MaxPending
            /\ put_ready(camera_queue)
            /\ camera_queue' = Append(camera_queue,
                   <<Head(targets).azimuth[1], Head(targets).altitude[1]>>)
            /\ ev' = Quiet("main_get")
            /\ UNCHANGED main_pc
    /\ UNCHANGED <<now, heap, cache, target, target_distance, old_frag,
                   cache_vars, camera, geo_vars>>

\* The items of the camera queue: a move command (azimuth, altitude), or
\* the startup status of camera_control, the stream URL or the exception.
StreamUrl == <<"rtsp_url">>
StartupError == <<"RuntimeError">>

IsCommand(item) == Len(item) = 2

\* camera_control: q.get() takes the oldest item and move_to starts on its
\* elements; unpacking the stream URL into move_to raises TypeError.
camera_get ==
    /\ camera.pc = "get"
    /\ camera_queue # <<>>
    /\ camera' = [camera EXCEPT
                    !.pc = IF IsCommand(Head(camera_queue)) THEN "moving"
                           ELSE "TypeError",
                    !.args = Head(camera_queue)]
    /\ camera_queue' = Tail(camera_queue)
    /\ ev' = [Quiet("camera_get") EXCEPT
                !.raised = IF IsCommand(Head(camera_queue)) THEN ""
                           ELSE "TypeError"]
    /\ UNCHANGED <<now, heap, cache, target, target_distance, targets, old_frag,
                   cache_vars, main_pc, geo_vars>>

\* camera_control: move_to returns after the camera has moved, or raises
\* RuntimeError when the camera refuses, which ends camera_control.
camera_moved(ok) ==
    /\ camera.pc = "moving"
    /\ camera' = IF ok
                 THEN [camera EXCEPT
                         !.pc = "get",
                         !.moved = move_to(camera, camera.args[1], camera.args[2])]
                 ELSE [camera EXCEPT !.pc = "RuntimeError"]
    /\ ev' = [Quiet("camera_moved") EXCEPT !.raised = IF ok THEN "" ELSE "RuntimeError"]
    /\ UNCHANGED <<now, heap, cache, target, target_distance, targets, old_frag,
                   cache_vars, camera_queue, main_pc, geo_vars>>

NextHandoff ==
    \/ \E msg \in HandoffMsgs : Ingest(msg, MaxPending)
    \/ main_get
    \/ camera_get
    \/ \E ok \in BOOLEAN : camera_moved(ok)

SpecHandoff == Init /\ [][NextHandoff]_vars

(***************************************************************************)
(* The startup of the camera process: go_maho starts camera_control and    *)
(* waits on camera_queue for its startup status, while camera_control      *)
(* puts the status on that queue and enters its loop on the same queue.    *)
(***************************************************************************)
InitStartup ==
    /\ now = 0
    /\ heap = <<>>
    /\ cache = <<>>
    /\ target = NULL
    /\ target_distance = None
    /\ targets = <<>>
    /\ ev = Quiet("init")
    /\ old_frag = [i \in Icaos |-> Fresh]
    /\ max_len = max_aircraft
    /\ touch = <<>>
    /\ camera_queue = <<>>
    /\ camera = [IPCamera(0, 0) EXCEPT !.pc = "start"]
    /\ main_pc = "startup"
    /\ aad = AzimuthAltitudeDistance(origin.lat, origin.lng, origin.ele)

\* camera_control up to its loop: the stream URL is put on the queue when
\* the camera answers, else the exception, after which the loop fails on
\* the unbound name camera.
camera_start(ok) ==
    /\ camera.pc = "start"
    /\ put_ready(camera_queue)
    /\ camera_queue' = Append(camera_queue, IF ok THEN StreamUrl ELSE StartupError)
    /\ camera' = [camera EXCEPT !.pc = IF ok THEN "get" ELSE "UnboundLocalError"]
    /\ ev' = [Quiet("camera_start") EXCEPT
                !.raised = IF ok THEN "" ELSE "UnboundLocalError"]
    /\ UNCHANGED <<now, heap, cache, target, target_distance, targets, old_frag,
                   cache_vars, main_pc, geo_vars>>

\* go_maho: stream_url = camera_queue.get(), a RuntimeError when the item
\* is an exception, else the main loop starts.
main_start ==
    /\ main_pc = "startup"
    /\ camera_queue # <<>>
    /\ camera_queue' = Tail(camera_queue)
    /\ main_pc' = IF Head(camera_queue) = StartupError THEN "RuntimeError"
                  ELSE "loop"
    /\ ev' = [Quiet("main_start") EXCEPT
                !.raised = IF Head(camera_queue) = StartupError
                           THEN "RuntimeError" ELSE ""]
    /\ UNCHANGED <<now, heap, cache, target, target_distance, targets, old_frag,
                   cache_vars, camera, geo_vars>>

NextStartup ==
    \/ \E ok \in BOOLEAN : camera_start(ok)
    \/ main_start
    \/ \E msg \in HandoffMsgs : Ingest(msg, MaxPending)
    \/ main_get
    \/ camera_get
    \/ \E ok \in BOOLEAN : camera_moved(ok)

SpecStartup == InitStartup /\ [][NextStartup]_vars

(***************************************************************************)
(* IPCamera.move_to called directly on a camera constructed with offsets,  *)
(* as test_move_good calls it (the ONVIF request succeeds).                *)
(***************************************************************************)
\* The offsets of test_move_good (10 and -10), the default, and an offset
\* of several turns.
Offsets == {-10, 0, 10, 1000}

\* Requests of test_move_good and the ends of the ranges move_to documents.
RequestAzimuths == {0, 5, 90, 180, 350, 355, 360}
RequestAltitudes == {0, 5, 45, 81, 90}

InitCamera ==
    /\ now = 0
    /\ heap = <<>>
    /\ cache = <<>>
    /\ target = NULL
    /\ target_distance = None
    /\ targets = <<>>
    /\ ev = Quiet("init")
    /\ old_frag = [i \in Icaos |-> Fresh]
    /\ max_len = max_aircraft
    /\ touch = <<>>
    /\ camera_queue = <<>>
    /\ \E azimuth_offset \in Offsets, altitude_offset \in Offsets :
          camera = IPCamera(azimuth_offset, altitude_offset)
    /\ main_pc = "loop"
    /\ aad = AzimuthAltitudeDistance(origin.lat, origin.lng, origin.ele)

\* camera.move_to(azimuth, altitude) returning normally.
MoveTo(azimuth, altitude) ==
    /\ camera' = [camera EXCEPT !.args = <<azimuth, altitude>>,
                                !.moved = move_to(camera, azimuth, altitude)]
    /\ ev' = Quiet("move_to")
    /\ UNCHANGED <<now, heap, cache, target, target_distance, targets,
                   old_frag, cache_vars, camera_queue, main_pc, geo_vars>>

NextCamera ==
    \E azimuth \in RequestAzimuths, altitude \in RequestAltitudes : MoveTo(azimuth, altitude)

SpecCamera == InitCamera /\ [][NextCamera]_vars

(***************************************************************************)
(* Dump1090.decode driven directly, one message at a time, on an empty     *)
(* cache (as the repository's tests drive it), without the tracker.        *)
(***************************************************************************)
Decode(msg) ==
    /\ \E d \in {decode(msg, heap, cache, now)} :
       \E gc \in {Collect(d.heap, d.cache, NULL)} :
           /\ heap' = gc.heap
           /\ cache' = gc.cache
           /\ ev' = [Event("decode", msg, d.rv # NULL, FALSE, FALSE, "",
                           None, MergeOutcome(d), d.raised)
                        EXCEPT !.expired = cache_has(cache, msg.icao)
                                             /\ ~CacheHit(msg)]
           /\ old_frag' =
                IF modes_df(msg) # 17 THEN old_frag
                ELSE [old_frag EXCEPT ![msg.icao] =
                        OldFragAfter(msg, d,
                            d.heap[cache_entry(d.cache, msg.icao).value],
                            CacheHit(msg))]
    /\ UNCHANGED <<now, target, target_distance, targets, cache_vars, handoff_vars, geo_vars>>

NextDecode ==
    \/ \E d \in TickSteps : Tick(d)
    \/ \E msg \in DecodeMsgs : Decode(msg)

SpecDecode == Init /\ [][NextDecode]_vars

(***************************************************************************)
(* Dump1090.decode driven directly, and the fields of the aircraft it      *)
(* stored read back through the Aircraft properties.                       *)
(***************************************************************************)
OptionalFields == {"callsign", "altitude", "position", "speed", "heading"}

\* Reading the property f of the aircraft a: every getter returns the
\* stored value except altitude, which converts it.
read(a, f) ==
    IF f = "altitude" THEN read_altitude(a)
    ELSE [value |-> a[f], raised |-> ""]

\* aircraft.<f> read on the aircraft the cache holds for icao.
Read(icao, f) ==
    /\ cache_has(cache, icao)
    /\ ev' = [Quiet("read") EXCEPT
                !.icao = icao,
                !.raised = read(heap[cache_entry(cache, icao).value], f).raised]
    /\ UNCHANGED <<now, heap, cache, target, target_distance, targets,
                   old_frag, cache_vars, handoff_vars, geo_vars>>

NextRead ==
    \/ \E d \in TickSteps : Tick(d)
    \/ \E msg \in DecodeMsgs : Decode(msg)
    \/ \E f \in OptionalFields : Read("A777BF", f)

SpecRead == Init /\ [][NextRead]_vars

(***************************************************************************)
(* AzimuthAltitudeDistance.calculate called directly, as test_aad calls    *)
(* it, and the normalisation of the raw angle in _azimuth for every angle  *)
(* atan2 can produce.                                                      *)
(***************************************************************************)
\* Elevations of the observer: the tracker runs' and test_aad's.
ObserverElevations == {0, 10}

\* Targets: metres north and east of the observer, and elevations.
TargetOffsets == {-4064, 0, 4064}
TargetElevations == {0, 10, 20, 3048}

\* The representable raw angles in [-180, 180].
Thetas == {theta \in Float(-180)..Float(180) : fl(theta) = theta}

InitGeodesy ==
    /\ now = 0
    /\ heap = <<>>
    /\ cache = <<>>
    /\ target = NULL
    /\ target_distance = None
    /\ targets = <<>>
    /\ ev = Quiet("init")
    /\ old_frag = [i \in Icaos |-> Fresh]
    /\ max_len = max_aircraft
    /\ touch = <<>>
    /\ camera_queue = <<>>
    /\ camera = IPCamera(0, 0)
    /\ main_pc = "loop"
    /\ \E ele \in ObserverElevations :
          aad = AzimuthAltitudeDistance(origin.lat, origin.lng, ele)

GeodesyUntouched ==
    UNCHANGED <<now, heap, cache, target, target_distance, targets, old_frag,
                cache_vars, handoff_vars>>

\* aad.calculate(lat, lng, ele)
Calculate(lat, lng, ele) ==
    /\ aad' = [aad EXCEPT !.args = <<lat, lng, ele>>,
                          !.result = calculate(aad, lat, lng, ele)]
    /\ ev' = Quiet("calculate")
    /\ GeodesyUntouched

\* The azimuth _azimuth derives from the raw angle theta.
Azimuth(theta) ==
    /\ aad' = [aad EXCEPT !.args = <<theta>>, !.result = normalize(theta)]
    /\ ev' = Quiet("azimuth")
    /\ GeodesyUntouched

NextGeodesy ==
    \/ \E lat \in TargetOffsets, lng \in TargetOffsets, ele \in TargetElevations :
          Calculate(lat, lng, ele)
    \/ \E theta \in Thetas : Azimuth(theta)

SpecGeodesy == InitGeodesy /\ [][NextGeodesy]_vars

(***************************************************************************)
(* The aircraft cache of a Dump1090 constructed with a small max_aircraft  *)
(* (as test_max_aircraft constructs it), fed reports for more addresses    *)
(* than it holds and written to directly.                                  *)
(***************************************************************************)
CacheIcaos == Icaos \cup {"A00002", "A00003"}
CacheLens == {2, 3}

\* Identification reports (stored by decode) and short replies (looked up
\* only).
CacheMsgs ==
    {Msg(i, 17, 4, 0, 0, None) : i \in CacheIcaos}
        \cup {Msg(i, 11, 0, 0, 0, None) : i \in CacheIcaos}

Keys(c) == {c[i].key : i \in 1..Len(c)}

\* The key that left the cache c to make room when k was stored, c2 being
\* the cache afterwards; "" when none did.
Evicted(c, c2, k) ==
    LET gone == (Keys(c) \ Keys(c2)) \ {k}
    IN  IF gone = {} THEN "" ELSE CHOOSE x \in gone : TRUE

\* The order of last touch of the keys of c2 once k has been touched (when
\* touched) after the touches of order.
Touched(order, c2, k, touched) ==
    LET kept == SelectSeq(order, LAMBDA x : x \in Keys(c2) /\ ~(touched /\ x = k))
    IN  IF touched /\ k \in Keys(c2) THEN Append(kept, k) ELSE kept

InitCache ==
    /\ now = 0
    /\ heap = <<>>
    /\ cache = <<>>
    /\ target = NULL
    /\ target_distance = None
    /\ targets = <<>>
    /\ ev = Quiet("init")
    /\ old_frag = [i \in Icaos |-> Fresh]
    /\ max_len \in CacheLens
    /\ touch = <<>>
    /\ camera_queue = <<>>
    /\ camera = IPCamera(0, 0)
    /\ main_pc = "loop"
    /\ aad = AzimuthAltitudeDistance(origin.lat, origin.lng, origin.ele)

CacheUntouched ==
    UNCHANGED <<now, target, target_distance, targets, old_frag, max_len,
                handoff_vars, geo_vars>>

\* Dump1090.decode of one report.
Report(msg) ==
    /\ \E d \in {decode(msg, heap, cache, now)} :
       \E gc \in {Collect(d.heap, d.cache, NULL)} :
           /\ heap' = gc.heap
           /\ cache' = gc.cache
           /\ ev' = [Event("report", msg, d.rv # NULL, FALSE, FALSE, "", None,
                            MergeOutcome(d), "")
                        EXCEPT !.evicted = Evicted(cache, gc.cache, msg.icao)]
           /\ touch' = Touched(touch, gc.cache, msg.icao,
                               CacheHit(msg) \/ modes_df(msg) = 17)
    /\ CacheUntouched

\* adsb._cache[icao] = Aircraft(icao)
Insert(icao) ==
    /\ \E c2 \in {cache_set(cache, icao, FreshRef(heap), now)} :
       \E gc \in {Collect((FreshRef(heap) :> Aircraft(icao, now)) @@ heap, c2, NULL)} :
           /\ heap' = gc.heap
           /\ cache' = gc.cache
           /\ ev' = [Quiet("insert") EXCEPT !.icao = icao,
                                            !.evicted = Evicted(cache, gc.cache, icao)]
           /\ touch' = Touched(touch, gc.cache, icao, TRUE)
    /\ CacheUntouched

NextCache ==
    \/ \E d \in TickSteps : Tick(d)
    \/ \E msg \in CacheMsgs : Report(msg)
    \/ \E icao \in CacheIcaos : Insert(icao)

SpecCache == InitCache /\ [][NextCache]_vars

(***************************************************************************)
(* The Aircraft entity on its own: one aircraft constructed at time 0 and  *)
(* assigned to through its properties.                                     *)
(***************************************************************************)
StampedFields == {"icao", "callsign", "altitude", "speed", "heading"}

FieldValues(f) ==
    IF f = "icao" THEN Icaos
    ELSE IF f = "callsign" THEN {None, Some(rstrip(RawCallsign))}
    ELSE IF f = "altitude" THEN {None} \cup {Some(alt) : alt \in Altitudes}
    ELSE IF f = "speed" THEN {Some(302)}
    ELSE {Some(RawHeading)}

PositionValues == {None, CprPosition(1), CprPosition(2)}

FragmentMsgs == {m \in PositionMsgs : m.icao = "A777BF" /\ m.cpr = 1}

InitAircraft ==
    /\ now = 0
    /\ heap = <<Aircraft("A777BF", 0)>>
    /\ cache = <<>>
    /\ target = NULL
    /\ target_distance = None
    /\ targets = <<>>
    /\ ev = Quiet("init")
    /\ old_frag = [i \in Icaos |-> Fresh]
    /\ max_len = max_aircraft
    /\ touch = <<>>
    /\ camera_queue = <<>>
    /\ camera = IPCamera(0, 0)
    /\ main_pc = "loop"
    /\ aad = AzimuthAltitudeDistance(origin.lat, origin.lng, origin.ele)

Untouched ==
    UNCHANGED <<now, cache, target, target_distance, targets, old_frag,
                cache_vars, handoff_vars, geo_vars>>

\* aircraft.<field> = value for a stamping property
Assign(f, value) ==
    /\ heap' = [heap EXCEPT ![1] =
                  IF f = "icao" THEN set_icao(@, value, now)
                  ELSE IF f = "callsign" THEN set_callsign(@, value, now)
                  ELSE IF f = "altitude" THEN set_altitude(@, value, now)
                  ELSE IF f = "speed" THEN set_speed(@, value, now)
                  ELSE set_heading(@, value, now)]
    /\ ev' = Quiet(f)
    /\ Untouched

\* aircraft.position = value
AssignPosition(value) ==
    /\ heap' = [heap EXCEPT ![1] = set_position(@, value)]
    /\ ev' = Quiet("position")
    /\ Untouched

\* aircraft.position_even = msg, aircraft.position_odd = msg
AssignFragment(msg) ==
    /\ heap' = [heap EXCEPT ![1] =
                  IF modes_oe_flag(msg) = 0 THEN set_position_even(@, msg, now)
                  ELSE set_position_odd(@, msg, now)]
    /\ ev' = Quiet(IF modes_oe_flag(msg) = 0 THEN "position_even" ELSE "position_odd")
    /\ Untouched

\* aircraft.age = value
AssignAge(value) ==
    /\ heap' = [heap EXCEPT ![1] = set_age(@, value).obj]
    /\ ev' = [Quiet("age") EXCEPT !.raised = set_age(heap[1], value).raised]
    /\ Untouched

AgeValues == {0, 61}

NextAircraft ==
    \/ \E d \in TickSteps : Tick(d)
    \/ \E f \in StampedFields : \E value \in FieldValues(f) : Assign(f, value)
    \/ \E value \in PositionValues : AssignPosition(value)
    \/ \E msg \in FragmentMsgs : AssignFragment(msg)
    \/ \E value \in AgeValues : AssignAge(value)

SpecAircraft == InitAircraft /\ [][NextAircraft]_vars

(***************************************************************************)
(* Properties of the tracker (specification Spec).  In a Packet step, d is *)
(* what decode returned for the packet, d.heap[d.rv] the yielded aircraft  *)
(* and d.heap[target] the target as the tracker reads it in that step.     *)
(***************************************************************************)
\* The step is a Packet step that yielded an aircraft; ev records the packet
\* of the step, and only Packet records a "packet" event.
Yielding == ev'.op = "packet" /\ ev'.yielded

\* msg is the packet of a yielding step and d what decode returned for it.
Yields(msg, d) == Yielding /\ ev'.msg = msg /\ d.rv # NULL

TargetKept(d) ==
    /\ target' # NULL
    /\ heap'[target'] = d.heap[target]
    /\ target_distance' = target_distance

TargetTaken(d) ==
    /\ target' # NULL
    /\ heap'[target'] = d.heap[d.rv]
    /\ target_distance' = Some(aim(d.heap[d.rv]).distance)

Emitted(d) == targets' = Append(targets, aim_point(d.heap[d.rv]))

\* C1: with a target whose age is at most 60 s, an update for another icao
\* whose distance is not strictly less than target_distance leaves target
\* and target_distance unchanged and puts nothing on the queue.
C1_Hysteresis ==
    [][Yielding => \A msg \in {ev'.msg} : \A d \in {decode(msg, heap, cache, now)} :
        (/\ Yields(msg, d)
         /\ target # NULL
         /\ age(d.heap[target], now) <= 60
         /\ d.heap[target].icao # d.heap[d.rv].icao
         /\ ~(aim(d.heap[d.rv]).distance < target_distance[1]))
        => (TargetKept(d) /\ targets' = targets)]_vars

\* A yielded update for another icao was ignored while the target was fresh.
C1_Witness ==
    /\ ev.op = "packet" /\ ev.yielded /\ ~ev.put /\ ~ev.stale
    /\ target # NULL /\ heap[target].icao # ev.icao
    /\ age(heap[target], now) <= 60

\* C2: with a target whose age is at most 60 s, an update for another icao
\* at a strictly smaller distance than target_distance becomes the target,
\* its distance becomes target_distance and its aim point is emitted; at
\* exactly the same distance the target keeps its icao.
C2_CloserDisplaces ==
    [][Yielding => \A msg \in {ev'.msg} : \A d \in {decode(msg, heap, cache, now)} :
        (/\ Yields(msg, d)
         /\ target # NULL
         /\ age(d.heap[target], now) <= 60
         /\ d.heap[target].icao # d.heap[d.rv].icao)
        => /\ aim(d.heap[d.rv]).distance < target_distance[1]
                => (TargetTaken(d) /\ Emitted(d))
           /\ aim(d.heap[d.rv]).distance = target_distance[1]
                => heap'[target'].icao = d.heap[target].icao]_vars

\* A closer aircraft has just displaced a fresh target of another icao.
C2_Witness ==
    /\ ev.op = "packet" /\ ev.put /\ ~ev.stale
    /\ ev.prev # "" /\ ev.prev # ev.icao
    /\ target_distance[1] < ev.prev_distance[1]

\* C3: when the target's age is strictly greater than 60 s the yielded
\* update becomes the target and is emitted whatever its distance and icao;
\* at an age of at most 60 s an update for another icao that is taken as
\* target is strictly closer than target_distance.
C3_StaleTakeover ==
    [][Yielding => \A msg \in {ev'.msg} : \A d \in {decode(msg, heap, cache, now)} :
        (Yields(msg, d) /\ target # NULL)
        => /\ age(d.heap[target], now) > 60 => (TargetTaken(d) /\ Emitted(d))
           /\ (/\ age(d.heap[target], now) <= 60
               /\ d.heap[target].icao # d.heap[d.rv].icao
               /\ heap'[target'].icao = d.heap[d.rv].icao)
                => aim(d.heap[d.rv]).distance < target_distance[1]]_vars

\* A farther aircraft of another icao has just taken over from a stale target.
C3_Witness ==
    /\ ev.op = "packet" /\ ev.put /\ ev.stale
    /\ ev.prev # "" /\ ev.prev # ev.icao
    /\ target_distance[1] > ev.prev_distance[1]

\* C4: an update whose icao is the target's keeps that icao as target,
\* replaces target_distance by the update's distance and emits an aim point.
C4_Reconfirm ==
    [][Yielding => \A msg \in {ev'.msg} : \A d \in {decode(msg, heap, cache, now)} :
        (/\ Yields(msg, d)
         /\ target # NULL
         /\ d.heap[target].icao = d.heap[d.rv].icao)
        => (TargetTaken(d) /\ Emitted(d))]_vars

\* The fresh target has just been re-confirmed at a larger distance.
C4_Witness ==
    /\ ev.op = "packet" /\ ev.put /\ ~ev.stale
    /\ ev.prev = ev.icao
    /\ target_distance[1] > ev.prev_distance[1]

\* C5: an aim point is put on the queue for an update exactly when the
\* target's icao after the step is the update's icao; the aim point carries
\* the update's azimuth, altitude and distance, and target_distance equals
\* the emitted distance right after the emission.
C5_EmissionMatchesState ==
    [][Yielding => \A msg \in {ev'.msg} : \A d \in {decode(msg, heap, cache, now)} :
        Yields(msg, d)
        => /\ (targets' # targets) <=> (heap'[target'].icao = d.heap[d.rv].icao)
           /\ targets' # targets
                => /\ Emitted(d)
                   /\ target_distance' = Some(targets'[Len(targets')].distance)]_vars

\* An update was yielded and emitted, and another was yielded and not.
C5_Witness ==
    /\ ev.op = "packet" /\ ev.yielded /\ ev.put
    /\ targets # <<>>
    /\ targets[Len(targets)].icao = ev.icao
    /\ Some(targets[Len(targets)].distance) = target_distance

\* C6: the tracker has no target until an eligible update is processed; the
\* first eligible update becomes the target and is emitted; once there is a
\* target there is always one.
C6_NoTargetOnlyAtStart ==
    [][/\ target # NULL => target' # NULL
       /\ (target = NULL /\ target' # NULL) => (ev'.op = "packet" /\ ev'.yielded)
       /\ Yielding => \A msg \in {ev'.msg} : \A d \in {decode(msg, heap, cache, now)} :
            (Yields(msg, d) /\ target = NULL)
            => (target' # NULL /\ heap'[target'] = d.heap[d.rv] /\ Emitted(d))]_vars

\* The first eligible update has just become the target.
C6_Witness ==
    /\ ev.op = "packet" /\ ev.put /\ ev.prev = ""
    /\ target # NULL /\ heap[target].icao = ev.icao

(***************************************************************************)
(* Properties of the Aircraft entity (specification SpecAircraft).         *)
(***************************************************************************)
PublicFields == StampedFields \cup {"position"}

\* C7: assigning icao, callsign, altitude, speed, heading or position
\* stamps last_update, so that age is 0 right after the assignment, and
\* age grows by the time that passes without such an assignment.
C7_AssignmentStampsAge ==
    [][/\ ev'.op \in PublicFields => age(heap'[1], now') = 0
       /\ ev'.op = "tick" => age(heap'[1], now') = age(heap[1], now) + (now' - now)]_vars

\* C8: assigning to age raises ValueError and leaves last_update and every
\* other field of the aircraft unchanged.
C8_AgeIsReadOnly ==
    [][ev'.op = "age" => (ev'.raised = "ValueError" /\ heap' = heap)]_vars

\* An assignment to age has just failed on an aircraft that is 61 s old and
\* has a position and a pending fragment.
C8_Witness ==
    /\ ev.op = "age" /\ ev.raised = "ValueError"
    /\ age(heap[1], now) = 61
    /\ heap[1].position # None
    /\ heap[1].position_even # None

(***************************************************************************)
(* Properties of Dump1090.decode (specification SpecDecode).               *)
(***************************************************************************)
Cached(c, h, icao) == h[cache_entry(c, icao).value]

\* C9: assigning a resolved position empties both fragment slots, and no
\* merge consumes a fragment captured before the latest resolved position
\* of its aircraft was assigned.
C9_PositionClearsFragments ==
    [][ev'.op = "decode" =>
        /\ ev'.merge = "ok" =>
              /\ Cached(cache', heap', ev'.icao).position # None
              /\ Cached(cache', heap', ev'.icao).position_even = None
              /\ Cached(cache', heap', ev'.icao).position_odd = None
        /\ ~old_frag'[ev'.icao].used]_vars

\* A merge has just resolved a position on an aircraft that had been
\* assigned a resolved position before.
C9_Witness ==
    /\ ev.op = "decode" /\ ev.merge = "ok"
    /\ old_frag[ev.icao].after
    /\ ~old_frag[ev.icao].used

\* C10: when both slots are populated and the merge yields no result, both
\* slots keep the payloads and capture timestamps the merge was given.
C10_FailedMergeRetainsFragments ==
    [][\A msg \in DecodeMsgs :
        (ev'.op = "decode" /\ ev'.merge = "failed" /\ ev'.icao = msg.icao)
        => \A d \in {decode(msg, heap, cache, now)} :
            (Decode(msg) /\ d.merge.ran /\ d.merge.result = None)
            => /\ Cached(cache', heap', msg.icao).position_even = d.merge.even
               /\ Cached(cache', heap', msg.icao).position_odd = d.merge.odd]_vars

\* The even and the odd position fragments the decoder runs receive, and the
\* times that pass between the two fragments of a pair.
EvenFragments ==
    {m \in DecodeMsgs \cap PositionMsgs : modes_oe_flag(m) = 0}

OddFragments ==
    {m \in DecodeMsgs \cap PositionMsgs : modes_oe_flag(m) = 1}

Gaps == {0, 1, 30}

\* Both fragment slots of the aircraft decode would start from are empty.
SlotsEmpty(icao) ==
    LET g == cache_get(cache, icao, now)
    IN  \/ g.value = NULL
        \/ /\ heap[g.value].position_even = None
           /\ heap[g.value].position_odd = None

\* decode of m1 now and of m2 gap seconds later; aircraft is the cached
\* aircraft after the second.
Deliver(m1, m2, gap) ==
    LET d1 == decode(m1, heap, cache, now)
        d2 == decode(m2, d1.heap, d1.cache, now + gap)
    IN  [first |-> d1, second |-> d2,
         aircraft |-> Cached(d2.cache, d2.heap, modes_icao(m2))]

MergedOnceAtSecond(r) ==
    /\ ~r.first.merge.ran
    /\ r.second.merge.ran
    /\ r.second.merge.result # None
         => /\ r.aircraft.position = r.second.merge.result
            /\ r.aircraft.position_even = None
            /\ r.aircraft.position_odd = None

NeverMerged(r) == ~r.first.merge.ran /\ ~r.second.merge.ran

C12_CacheBounded == Len(cache) <= max_len

\* A report or an insertion has just pushed an aircraft out of a cache of
\* three.
C12_Witness ==
    /\ ev.evicted # ""
    /\ max_len = 3
    /\ Len(cache) = max_len

\* C13: the aircraft that leaves the cache when a report for an address not
\* yet cached is stored in a full cache is the least recently touched one,
\* a lookup and an update both counting as a touch.
C13_EvictsLeastRecentlyTouched ==
    [][(ev'.op = "report" /\ ev'.evicted # "")
        => (touch # <<>> /\ ev'.evicted = touch[1])]_vars

\* What decode leaves in the cache for msg when it starts from nothing.
StartedFresh(msg) ==
    LET d0 == decode(msg, <<>>, <<>>, now)
    IN  Cached(d0.cache, d0.heap, modes_icao(msg))

\* After the step the cache holds for msg's address what a fresh Aircraft
\* gives (when the report is stored), or nothing.
NothingCarriedOver(msg) ==
    IF modes_df(msg) = 17
    THEN Cached(cache', heap', modes_icao(msg)) = StartedFresh(msg)
    ELSE ~cache_has(cache', modes_icao(msg))

\* C14 as stated: a cached aircraft whose age (time since its last field
\* update) exceeds max_aircraft_age is not returned by the lookup in decode,
\* and the report starts from a fresh Aircraft.
C14_FieldAgeCap ==
    [][ev'.op = "decode" => \A msg \in {ev'.msg} :
        (/\ cache_has(cache, modes_icao(msg))
         /\ age(Cached(cache, heap, modes_icao(msg)), now) > max_aircraft_age)
        => (~CacheHit(msg) /\ NothingCarriedOver(msg))]_vars

\* C14 amended: a cached aircraft that was last stored more than
\* max_aircraft_age seconds ago is not returned by the lookup in decode, and
\* the report starts from a fresh Aircraft: no callsign, position or
\* fragment of the old one is carried over.
C14_StoreAgeCap ==
    [][ev'.op = "decode" => \A msg \in {ev'.msg} :
        (/\ cache_has(cache, modes_icao(msg))
         /\ now - cache_entry(cache, modes_icao(msg)).set_time > max_aircraft_age)
        => (~CacheHit(msg) /\ NothingCarriedOver(msg))]_vars

\* A position report has just found the entry of its address expired and
\* started again from a fresh Aircraft, 61 s after the start.
C14_Witness ==
    /\ ev.op = "decode" /\ ev.expired
    /\ now = 61
    /\ modes_typecode(ev.msg) = 11
    /\ Cached(cache, heap, ev.icao).callsign = None
    /\ Cached(cache, heap, ev.icao).position = None
    /\ Cached(cache, heap, ev.icao).last_update = now

\* The aircraft the lookup of decode returns for msg (a cache hit).
Looked(msg) == heap[cache_get(cache, modes_icao(msg), now).value]

\* C15: an aircraft yielded by decode has a resolved position and an
\* altitude, is the aircraft the cache held and holds for the address, and
\* carries the callsign, speed and heading that aircraft had; every stored
\* report keeps the callsign, speed and heading it does not itself report;
\* a report that does not complete a pair into a resolved position yields
\* nothing.
C15_Eligibility ==
    [][ev'.op = "decode" => \A msg \in {ev'.msg} :
        \A d \in {decode(msg, heap, cache, now)} :
            /\ ev'.yielded
                 => /\ d.rv # NULL
                    /\ d.heap[d.rv].position # None
                    /\ d.heap[d.rv].altitude # None
                    /\ CacheHit(msg)
                    /\ d.heap[d.rv].callsign = Looked(msg).callsign
                    /\ d.heap[d.rv].speed = Looked(msg).speed
                    /\ d.heap[d.rv].heading = Looked(msg).heading
                    /\ Cached(cache', heap', modes_icao(msg)) = d.heap[d.rv]
            /\ (CacheHit(msg) /\ modes_df(msg) = 17 /\ ev'.raised = "")
                 => /\ modes_typecode(msg) >= 5
                         => Cached(cache', heap', modes_icao(msg)).callsign
                                = Looked(msg).callsign
                    /\ modes_typecode(msg) # 19
                         => /\ Cached(cache', heap', modes_icao(msg)).speed
                                  = Looked(msg).speed
                            /\ Cached(cache', heap', modes_icao(msg)).heading
                                  = Looked(msg).heading
            /\ (~d.merge.ran \/ d.merge.result = None) => ~ev'.yielded]_vars

\* decode has just yielded an aircraft that carries a callsign, a speed and
\* a heading reported before its position was resolved.
C15_Witness ==
    /\ ev.op = "decode" /\ ev.yielded
    /\ Cached(cache, heap, ev.icao).position # None
    /\ Cached(cache, heap, ev.icao).altitude # None
    /\ Cached(cache, heap, ev.icao).callsign = Some(<<"A", "A", "L">>)
    /\ Cached(cache, heap, ev.icao).speed = Some(302)
    /\ Cached(cache, heap, ev.icao).heading = Some(56)

(***************************************************************************)
(* The tracker and the store (specification Spec).                         *)
(***************************************************************************)
\* The aircraft a lookup in the cache c returns for the address k at time t.
Held(c, k, t) == cache_get(c, k, t).value

\* C16: when the tracker evaluates whether its target is stale, the
\* aircraft whose age it reads is the one the store holds under the
\* target's address.
C16_StalenessFollowsStore ==
    [][Yielding => \A msg \in {ev'.msg} : \A d \in {decode(msg, heap, cache, now)} :
        (Yields(msg, d) /\ target # NULL)
        => Held(d.cache, d.heap[target].icao, now) = target]_vars

(***************************************************************************)
(* Properties of the hand-off (specification SpecHandoff).                 *)
(***************************************************************************)
\* C17: the tracker is never held up by the hand-off: as long as the model
\* lets the queue grow, the loop body can run to its end on every report
\* decode has decoded, whatever the camera process and the main loop are
\* doing and whatever is still pending.
C17_IngestNeverBlocked ==
    Len(targets) < MaxPending
        => \A msg \in HandoffMsgs :
             \A d \in {decode(msg, heap, cache, now)} :
               \A r \in {Tracked(d)} :
                 \A gc \in {Collect(d.heap, d.cache, r.target)} :
                   \A e \in {PacketEvent(msg, d, r)} : ENABLED Commit(r, gc, e)

\* The tracker has just put an aim point on a queue that already held one,
\* while move_to is in progress and the camera queue is full.
C17_Witness ==
    /\ ev.op = "packet" /\ ev.put
    /\ Len(targets) = 2
    /\ camera.pc = "moving"
    /\ Len(camera_queue) = MaxPending

\* C18: the consumer takes the most recent aim point: the main loop passes
\* on, and camera_control moves to, the newest pending item, and the older
\* pending items are dropped.
C18_LatestValueWins ==
    [][/\ ev'.op = "main_get" /\ ev'.raised = ""
            => /\ targets[Len(targets)].azimuth
                    = Some(camera_queue'[Len(camera_queue')][1])
               /\ targets[Len(targets)].altitude
                    = Some(camera_queue'[Len(camera_queue')][2])
               /\ targets' = <<>>
       /\ ev'.op = "camera_get"
            => /\ camera'.args = camera_queue[Len(camera_queue)]
               /\ camera_queue' = <<>>]_vars

(***************************************************************************)
(* Properties of IPCamera.move_to (specification SpecCamera).              *)
(***************************************************************************)
\* C19: whatever the request and the offsets, the pair move_to returns is
\* the request plus the offsets, the altitude clamped into [0, 90] and the
\* azimuth wrapped into [0, 360): 0 <= azimuth < 360 and 0 <= altitude <= 90.
C19_MoveToInRange ==
    ev.op = "move_to"
        => /\ 0 <= camera.moved.azimuth /\ camera.moved.azimuth < 360
           /\ (camera.moved.azimuth - camera.args[1] - camera.azimuth_offset)
                  % 360 = 0
           /\ 0 <= camera.moved.altitude /\ camera.moved.altitude <= 90
           /\ \/ camera.moved.altitude
                    = camera.args[2] + camera.altitude_offset
              \/ /\ camera.moved.altitude = 90
                 /\ camera.args[2] + camera.altitude_offset > 90
              \/ /\ camera.moved.altitude = 0
                 /\ camera.args[2] + camera.altitude_offset < 0

(***************************************************************************)
(* Absent data in the store (specification SpecRead).                      *)
(***************************************************************************)
\* C20: absence of data is never an error in the store: reading an optional
\* field of a stored aircraft, reported or not, and decoding a report,
\* with or without an altitude, never raises.
C20_AbsenceNeverRaises ==
    ev.op \in {"read", "decode"} => ev.raised = ""

(***************************************************************************)
(* Absent azimuth or altitude in the hand-off (specification SpecHandoff). *)
(***************************************************************************)
\* C21: an aim point whose azimuth or altitude is absent is processed by
\* the tracker, by the main loop of go_maho and by camera_control without
\* any of them ending with an error: no step raises TypeError and the main
\* loop keeps running.
C21_AbsentAimPointHandled ==
    /\ main_pc = "loop"
    /\ ev.raised # "TypeError"

(***************************************************************************)
(* Properties of the geodesy (specification SpecGeodesy).                  *)
(***************************************************************************)
\* The observer of test_aad and the target 10 m above it.
ReferenceCase ==
    /\ ev.op = "calculate"
    /\ aad.origin = [lat |-> 0, lng |-> 0, ele |-> 10]
    /\ aad.args = <<0, 0, 20>>

\* C22: for the observer at 10 m and a target at the same latitude and
\* longitude at 20 m, calculate returns azimuth 0 (not absent), altitude 90
\* and a distance of 10 m.
C22_ReferenceCase ==
    ReferenceCase
        => aad.result = [azimuth |-> Some(0), altitude |-> Some(90),
                         distance |-> 10]

C22_Witness == ReferenceCase /\ aad.result.azimuth # None

\* C23: for every raw angle theta in [-180, 180], 90 - theta followed by
\* the normalisation steps lies in [0, 360).
C23_AzimuthInRange ==
    ev.op = "azimuth" => 0 <= aad.result /\ aad.result < Float(360)

(***************************************************************************)
(* Properties of the startup (specification SpecStartup).                  *)
(***************************************************************************)
\* C24: in every interleaving the startup status camera_control put on
\* camera_queue is taken by the main process: camera_control never takes
\* it back off the queue as a move command.
C24_StartupHandshake ==
    [][/\ ev'.op = "camera_get" => IsCommand(camera'.args)
       /\ ev'.op = "main_start"
            => Head(camera_queue) \in {StreamUrl, StartupError}]_vars

(***************************************************************************)
(* Liveness of staleness (specification SpecStale).                        *)
(***************************************************************************)
\* The target is the nearer aircraft and the object the tracker holds has
\* had no field assigned since time 0.
SilentTarget ==
    /\ target # NULL
    /\ heap[target].icao = "A777BF"
    /\ heap[target].last_update = 0

\* An eligible update of the farther aircraft has just been processed.
ChallengerYield == ev.op = "packet" /\ ev.yielded /\ ev.icao = "A00001"

\* C25: a target that receives no further field update while eligible
\* updates of another aircraft keep arriving is eventually replaced, at
\* the latest by the first eligible update processed once its age exceeds
\* 60 s, although the other aircraft is farther than the target's last
\* recorded distance.
C25_StaleTargetReplaced ==
    /\ []<>ChallengerYield => (SilentTarget ~> ~SilentTarget)
    /\ [][(ev'.op = "packet" /\ ev'.yielded /\ SilentTarget
             /\ age(heap[target], now) > StaleAge)
            => ~SilentTarget']_vars

\* The farther aircraft has just replaced the silent nearer one.
C25_Witness ==
    /\ ev.op = "packet" /\ ev.put /\ ev.stale
    /\ ev.prev = "A777BF" /\ ev.icao = "A00001"
    /\ ev.prev_distance[1] < target_distance[1]
    /\ now = MaxTime

(***************************************************************************)
(* The tracker's pair of target and distance (specification Spec).         *)
(***************************************************************************)
\* C26: target_distance is defined in every state in which target is set,
\* so distance < target_distance is never evaluated against None.
C26_DistanceDefinedWithTarget ==
    /\ target # NULL => target_distance # None
    /\ target = NULL => target_distance = None

\* A target is set and a report of another aircraft has just been compared
\* with its distance and rejected.
C26_Witness ==
    /\ ev.op = "packet" /\ ev.yielded /\ ~ev.put /\ ~ev.stale
    /\ target # NULL /\ target_distance # None
    /\ ev.prev # ev.icao

(***************************************************************************)
(* Failed merges and the resolved position (specification SpecDecode).     *)
(***************************************************************************)
\* C27: a position report whose merge yields no result leaves the resolved
\* position the aircraft had before the report as it was.
C27_FailedMergeKeepsPosition ==
    [][(/\ ev'.op = "decode" /\ ev'.merge = "failed" /\ ev'.raised = ""
        /\ cache_get(cache, ev'.icao, now).value # NULL
        /\ Cached(cache, heap, ev'.icao).position # None)
       => Cached(cache', heap', ev'.icao).position
            = Cached(cache, heap, ev'.icao).position]_vars

(***************************************************************************)
(* The AbsoluteMove request of IPCamera.move_to (specification SpecCamera). *)
(***************************************************************************)
\* C28: whatever the request and the offsets, the pan and the tilt sent in
\* AbsoluteMove lie in [-1, 1]; the pan is 0 for the azimuth 0, 0.5 for 90,
\* -0.5 for 270 and of magnitude 1 for 180.
C28_PanTiltInRange ==
    ev.op = "move_to"
        => /\ Abs(camera.moved.x_target[1]) <= camera.moved.x_target[2]
           /\ Abs(camera.moved.y_target[1]) <= camera.moved.y_target[2]
           /\ camera.moved.azimuth = 0 => camera.moved.x_target[1] = 0
           /\ camera.moved.azimuth = 90 => 2 * camera.moved.x_target[1] = 180
           /\ camera.moved.azimuth = 270 => 2 * camera.moved.x_target[1] = -180
           /\ camera.moved.azimuth = 180 => Abs(camera.moved.x_target[1]) = 180

====
